---- MODULE Spec2Model ----
(***************************************************************************)
(* A model of the Binance.US relay (src/server.js and its earlier          *)
(* revisions under src/unnamed): the TTL cache in front of the exchange,   *)
(* the cost-basis pass of /positions and /breakeven/:symbol, and the       *)
(* /positions aggregation.                                                 *)
(*                                                                         *)
(* Numbers.  Every quantity, price and cost of the program is a JavaScript *)
(* Number: IEEE-754 binary floating point, every +, -, * and / rounded to  *)
(* the nearest representable value, ties to even.  The model keeps the     *)
(* rounding and shrinks the format: a value is an integer count of         *)
(* 2^-FracBits (the smallest subnormal) and is representable when its      *)
(* significand fits in MantBits bits.                                      *)
(***************************************************************************)
EXTENDS Integers, Naturals, Sequences, FiniteSets, TLC

\* ------------------------------------------------------------------------
\* Bounds of the model
\* ------------------------------------------------------------------------
\* Significand width of the modelled binary floating-point format.
MantBits == 8
\* A value n stands for n * 2^-FracBits.
FracBits == 4
\* Longest trade history the cost-basis pass is run on.
MaxTrades == 3

\* Clock advances taken in one behaviour.
MaxTicks == 2
\* Snapshots the exchange goes through (0 .. MaxVer).
MaxVer == 1
\* Getter calls started in one behaviour of the cache specification.
MaxCalls == 2
MaxReqs == 2
MaxFails == 1
\* POST /order requests per run.
MaxOrders == 2
MaxTracked == 4

VARIABLES
    FEE_RATE,   \* server.js:20, read from the environment at start-up
    trades,     \* the trade history processed so far by both passes
    pos,        \* /positions pass: [openQty, openCost]
    be,         \* /breakeven pass: [qty, cost]
    prev,       \* [pos, be] before the last processed trade
    now,        \* Date.now(), in ms
    ticks,      \* clock advances so far
    cache,      \* server.js:25-29
    exchangeInfoCache,  \* server.js:43
    upVer,      \* the snapshot the exchange serves now
    calls,      \* per caller: the getter call it is suspended in
    last,       \* per caller: the record of its latest completed call
    nCalls,     \* getter calls started so far
    world,      \* what the exchange answers: account, trades, prices
    reqs,       \* per HTTP request: where its handler stands
    nFails,     \* fetches of request handlers that failed so far
    order,      \* the POST /order request being handled
    positions   \* part_001:5, the positions tracked by POST /order

basisVars == <<FEE_RATE, trades, pos, be, prev>>
cacheVars == <<cache, exchangeInfoCache>>
callVars == <<now, ticks, upVer, calls, last, nCalls>>
handlerVars == <<world, reqs, nFails, order, positions>>
vars == <<FEE_RATE, trades, pos, be, prev, now, ticks, cache,
          exchangeInfoCache, upVer, calls, last, nCalls, world, reqs,
          nFails, order, positions>>

\* ------------------------------------------------------------------------
\* JavaScript Number arithmetic
\* ------------------------------------------------------------------------
RECURSIVE Pow2(_)
Pow2(n) == IF n = 0 THEN 1 ELSE 2 * Pow2(n - 1)

RECURSIVE Pow10(_)
Pow10(n) == IF n = 0 THEN 1 ELSE 10 * Pow10(n - 1)

\* The value 1.
Unit == Pow2(FracBits)

\* The integer n as a Number.
Num(n) == n * Unit

Abs(x) == IF x < 0 THEN -x ELSE x

\* The exponent of num/den: the least e >= 0 with num/den < 2^(MantBits+e).
RECURSIVE ExpOf(_, _, _)
ExpOf(num, den, e) ==
    IF num < den * Pow2(MantBits + e) THEN e ELSE ExpOf(num, den, e + 1)

\* num/den >= 0 rounded to the nearest representable value, ties to even.
RoundPos(num, den) ==
    LET e     == ExpOf(num, den, 0)
        scale == den * Pow2(e)
        fl    == num \div scale
        rem   == num % scale
        m     == IF 2 * rem > scale \/ (2 * rem = scale /\ fl % 2 = 1)
                 THEN fl + 1 ELSE fl
    IN  m * Pow2(e)

\* num/den (den > 0) rounded to nearest, ties to even.
Round(num, den) ==
    IF num >= 0 THEN RoundPos(num, den) ELSE -RoundPos(-num, den)

FAdd(a, b) == Round(a + b, 1)
FSub(a, b) == Round(a - b, 1)
FMul(a, b) == Round(a * b, Unit)
FDiv(a, b) == IF b > 0 THEN Round(a * Unit, b) ELSE Round(-(a * Unit), -b)

\* The first d decimal digits of r/Unit (0 <= r < Unit) and what is left.
RECURSIVE Decimals(_, _)
Decimals(r, d) ==
    IF d = 0 THEN <<0, r>>
    ELSE LET p == Decimals(r, d - 1)
         IN  <<p[1] * 10 + ((p[2] * 10) \div Unit), (p[2] * 10) % Unit>>

\* Number.prototype.toFixed(d): the decimal string with d fraction digits
\* nearest to x, the larger magnitude on a tie; as [neg, whole, frac].
ToFixed(x, d) ==
    LET a     == Abs(x)
        p     == Decimals(a % Unit, d)
        n     == p[1] + (IF 2 * p[2] >= Unit THEN 1 ELSE 0)
        carry == IF n = Pow10(d) THEN 1 ELSE 0
    IN  [neg |-> x < 0, whole |-> (a \div Unit) + carry,
         frac |-> IF carry = 1 THEN 0 ELSE n]

\* ------------------------------------------------------------------------
\* The cost-basis pass
\* ------------------------------------------------------------------------
\* Faulty variant: the fee of a buy is left out of the cost basis.
PosStepNoFee(s, t, feeRate) ==
    LET qty == t.qty
        p   == t.price
    IN  IF t.isBuyer
        THEN [openQty  |-> FAdd(s.openQty, qty),
              openCost |-> FAdd(s.openCost, FMul(qty, p))]
        ELSE IF s.openQty > 0
        THEN LET avg == FDiv(s.openCost, s.openQty)
                 q1  == FSub(s.openQty, qty)
                 c1  == FSub(s.openCost, FMul(qty, avg))
             IN  [openQty  |-> IF q1 < 0 THEN 0 ELSE q1,
                  openCost |-> IF c1 < 0 THEN 0 ELSE c1]
        ELSE s

\* Faulty variant: a sell lowers openQty and leaves openCost as it is.
PosStepKeepCost(s, t, feeRate) ==
    LET qty == t.qty
        p   == t.price
        fee == FMul(FMul(qty, p), feeRate)
    IN  IF t.isBuyer
        THEN [openQty  |-> FAdd(s.openQty, qty),
              openCost |-> FAdd(s.openCost, FAdd(FMul(qty, p), fee))]
        ELSE IF s.openQty > 0
        THEN LET q1  == FSub(s.openQty, qty)
             IN  [openQty  |-> IF q1 < 0 THEN 0 ELSE q1,
                  openCost |-> s.openCost]
        ELSE s

\* Faulty variant: a sell takes qty * p, at the price of the sell, out of
\* the cost basis.
PosStepSellAtPrice(s, t, feeRate) ==
    LET qty == t.qty
        p   == t.price
        fee == FMul(FMul(qty, p), feeRate)
    IN  IF t.isBuyer
        THEN [openQty  |-> FAdd(s.openQty, qty),
              openCost |-> FAdd(s.openCost, FAdd(FMul(qty, p), fee))]
        ELSE IF s.openQty > 0
        THEN LET q1  == FSub(s.openQty, qty)
                 c1  == FSub(s.openCost, FMul(qty, p))
             IN  [openQty  |-> IF q1 < 0 THEN 0 ELSE q1,
                  openCost |-> IF c1 < 0 THEN 0 ELSE c1]
        ELSE s

\* One iteration of the loop of /positions over a trade t.
PosStep(s, t, feeRate) ==
    LET qty == t.qty
        p   == t.price
        fee == FMul(FMul(qty, p), feeRate)
    IN  IF t.isBuyer
        THEN [openQty  |-> FAdd(s.openQty, qty),
              openCost |-> FAdd(s.openCost, FAdd(FMul(qty, p), fee))]
        ELSE IF s.openQty > 0
        THEN LET avg == FDiv(s.openCost, s.openQty)
                 q1  == FSub(s.openQty, qty)
                 c1  == FSub(s.openCost, FMul(qty, avg))
             IN  [openQty  |-> IF q1 < 0 THEN 0 ELSE q1,
                  openCost |-> IF c1 < 0 THEN 0 ELSE c1]
        ELSE s

\* One iteration of the loop of /breakeven/:symbol over a trade t.
BeStep(s, t, feeRate) ==
    LET q   == t.qty
        p   == t.price
        fee == FMul(FMul(q, p), feeRate)
    IN  IF t.isBuyer
        THEN [qty  |-> FAdd(s.qty, q),
              cost |-> FAdd(s.cost, FAdd(FMul(q, p), fee))]
        ELSE IF s.qty > 0
        THEN LET avg == FDiv(s.cost, s.qty)
             IN  [qty  |-> FSub(s.qty, q),
                  cost |-> FSub(s.cost, FMul(q, avg))]
        ELSE s

PosZero == [openQty |-> 0, openCost |-> 0]
BeZero == [qty |-> 0, cost |-> 0]

\* Before any trade is processed.
BasisStart ==
    /\ trades = <<>>
    /\ pos = PosZero
    /\ be = BeZero
    /\ prev = [pos |-> PosZero, be |-> BeZero]

\* The whole loop of /positions over a trade list.
RECURSIVE PositionsPass(_, _)
PositionsPass(ts, feeRate) ==
    IF ts = <<>> THEN PosZero
    ELSE PosStep(PositionsPass(SubSeq(ts, 1, Len(ts) - 1), feeRate),
                 ts[Len(ts)], feeRate)

\* The whole loop of /breakeven/:symbol over a trade list.
RECURSIVE BreakEvenPass(_, _)
BreakEvenPass(ts, feeRate) ==
    IF ts = <<>> THEN BeZero
    ELSE BeStep(BreakEvenPass(SubSeq(ts, 1, Len(ts) - 1), feeRate),
                ts[Len(ts)], feeRate)

\* What /breakeven/:symbol answers after its loop.
BreakEvenResponse(s) ==
    LET b == IF s.qty > 0 THEN FDiv(s.cost, s.qty) ELSE 0
    IN  [breakEven |-> ToFixed(b, 8), averagePrice |-> ToFixed(b, 8),
         totalQuantity |-> ToFixed(s.qty, 8)]

\* ------------------------------------------------------------------------
\* The cache and its four getters
\* ------------------------------------------------------------------------
ACCOUNT_TTL == 5000
TRADES_TTL == 60000
PRICE_TTL == 5000
EXCHANGE_INFO_TTL == 60 * 60 * 1000

\* The quote currencies, in the order /positions pairs an asset with them.
Quotes == <<"USDT", "USDC", "USD">>
\* The assets of the account snapshot.
Assets == {"BTC", "USDT", "LTC", "ETH"}
\* Every symbol the cache may hold an entry for.
Symbols == {a \o Quotes[i] : a \in Assets \ {"USDT"}, i \in 1..3}
\* The symbols the callers of the cache specification ask for.
CallSymbols == {"BTCUSDT", "ETHUSDT"}
Callers == {"c1", "c2"}
Cats == {"account", "trades", "prices", "exchangeInfo"}
\* account and exchangeInfo hold one global entry.
Global == "*"
KeysOf(cat) == IF cat \in {"trades", "prices"} THEN CallSymbols ELSE {Global}

\* An entry that was never stored: cache.trades[symbol] is undefined,
\* cache.account and exchangeInfoCache start as { data: null, ts: 0 }.
NoEntry == [has |-> FALSE, data |-> 0, ts |-> 0]
\* { data: r.data, ts: Date.now() }
NewEntry(d) == [has |-> TRUE, data |-> d, ts |-> now]

\* The condition under which each getter answers from the entry c it read.
AccountHit(c) == c.has /\ now - c.ts < ACCOUNT_TTL
\* Faulty variant: an entry exactly TTL old is still served.
TradesHitAtTtl(c) == c.has /\ now - c.ts <= TRADES_TTL
\* Faulty variant: the freshness test is inverted.
TradesHitInverted(c) == c.has /\ now - c.ts > TRADES_TTL
TradesHit(c) == c.has /\ now - c.ts < TRADES_TTL
PriceHit(c) == c.has /\ now - c.ts < PRICE_TTL
ExchangeInfoHit(c) == c.has /\ now - c.ts < EXCHANGE_INFO_TTL

Entry(cat, key) ==
    CASE cat = "account" -> cache.account
      [] cat = "trades" -> cache.trades[key]
      [] cat = "prices" -> cache.prices[key]
      [] cat = "exchangeInfo" -> exchangeInfoCache

Hit(cat, key) ==
    CASE cat = "account" -> AccountHit(Entry(cat, key))
      [] cat = "trades" -> TradesHit(Entry(cat, key))
      [] cat = "prices" -> PriceHit(Entry(cat, key))
      [] cat = "exchangeInfo" -> ExchangeInfoHit(Entry(cat, key))

\* The cache after the assignment each getter makes once its fetch has
\* answered with d.
WithAccount(C, d) == [C EXCEPT !.account = NewEntry(d)]
\* Faulty variant: an answer that finds a fresh entry does not replace it.
WithTradesKeepFresh(C, symbol, d) ==
    IF TradesHit(C.trades[symbol]) THEN C
    ELSE [C EXCEPT !.trades[symbol] = NewEntry(d)]
WithTrades(C, symbol, d) == [C EXCEPT !.trades[symbol] = NewEntry(d)]
WithPrice(C, symbol, d) == [C EXCEPT !.prices[symbol] = NewEntry(d)]

Store(cat, key, d) ==
    CASE cat = "account" ->
             cache' = WithAccount(cache, d) /\ UNCHANGED exchangeInfoCache
      [] cat = "trades" ->
             cache' = WithTrades(cache, key, d) /\ UNCHANGED exchangeInfoCache
      [] cat = "prices" ->
             cache' = WithPrice(cache, key, d) /\ UNCHANGED exchangeInfoCache
      [] cat = "exchangeInfo" ->
             exchangeInfoCache' = NewEntry(d) /\ UNCHANGED cache

CacheStart ==
    /\ cache = [account |-> NoEntry,
                trades |-> [s \in Symbols |-> NoEntry],
                prices |-> [s \in Symbols |-> NoEntry]]
    /\ exchangeInfoCache = NoEntry

\* ------------------------------------------------------------------------
\* The exchange and the HTTP requests
\* ------------------------------------------------------------------------
\* The account snapshot the exchange answers with: free and locked per
\* asset, in the order of its balance list.
Balances ==
    << [asset |-> "BTC", free |-> Num(1), locked |-> 0],
       [asset |-> "USDT", free |-> Num(100), locked |-> 0],
       [asset |-> "LTC", free |-> 0, locked |-> 0],
       [asset |-> "ETH", free |-> Num(1), locked |-> Num(1)] >>

\* A non-empty trade history: one buy of 2 at 10.
History == <<[qty |-> Num(2), price |-> Num(10), isBuyer |-> TRUE]>>

\* The exchange with trade histories f and a last price of 10 everywhere.
WorldOf(f) ==
    [account |-> [balances |-> Balances],
     tradesOf |-> f,
     priceOf |-> [s \in Symbols |-> Num(10)]]

\* A history that leaves an open quantity of 1/2, worth 5 at a price of
\* 10: a buy of 2 and a sell of 3/2.
Dust ==
    <<[qty |-> Num(2), price |-> Num(10), isBuyer |-> TRUE],
      [qty |-> Num(3) \div 2, price |-> Num(10), isBuyer |-> FALSE]>>

\* A history that leaves nothing open: a buy of 2 and a sell of 2.
Closed ==
    <<[qty |-> Num(2), price |-> Num(10), isBuyer |-> TRUE],
      [qty |-> Num(2), price |-> Num(10), isBuyer |-> FALSE]>>

\* The histories tried: BTCUSDT and BTCUSDC without trades or with an open
\* position, BTCUSD without trades, with dust or closed; ETH was traded
\* against USDC only, LTC never.
TradeMaps ==
    {[s \in Symbols |->
         IF s = "BTCUSDT" THEN a
         ELSE IF s = "BTCUSDC" THEN b
         ELSE IF s = "BTCUSD" THEN c
         ELSE IF s = "ETHUSDC" THEN History
         ELSE <<>>] :
     a \in {<<>>, History}, b \in {<<>>, History}, c \in {<<>>, Dust, Closed}}

\* The connections requests arrive on, one request at a time on each.
Reqs == {"r1"}
\* let symbol=null
Null == "null"
\* let price=null
NoPrice == -1
\* A request that has not arrived; n counts the requests served.  asked, priced and failed record the
\* symbols getTradesCached and getPriceCached were called with, in order,
\* and the fetches that failed, as <<getter, key>>.
NoReq ==
    [n |-> 0, kind |-> "none", pc |-> "idle", sym |-> Null, assets |-> <<>>,
     ai |-> 1, ci |-> 1, symbol |-> Null, trades |-> <<>>,
     price |-> NoPrice, positions |-> <<>>, status |-> 0,
     answer |-> [breakEven |-> ToFixed(0, 8), averagePrice |-> ToFixed(0, 8),
                 totalQuantity |-> ToFixed(0, 8)],
     asked |-> <<>>, priced |-> <<>>, failed |-> {}]

\* Decimal numerals, as they come in request bodies and in the exchange's
\* filters, are counted in hundredths.
Cent == 100

\* The trading rules the exchange holds for BTCUSDT when none are under
\* test: LOT_SIZE stepSize and minQty, PRICE_FILTER tickSize, all "1.00".
NoFilters == [stepSize |-> Cent, minQty |-> Cent, tickSize |-> Cent]

\* No order has arrived; n counts the orders handled.  handler tells the
\* revision of POST /order: "server" (src/server.js) or "lot" (the one
\* with adjustQtyForLotSize and roundPrice).
NoOrder ==
    [n |-> 0, handler |-> "none", pc |-> "idle", filters |-> NoFilters,
     symbol |-> Null, side |-> "BUY", type |-> "MARKET", quantity |-> 0,
     usdAmount |-> 0, price |-> 0, qty |-> 0, status |-> 0, error |-> Null,
     sent |-> FALSE,
     finalQty |-> [t |-> ToFixed(0, 0), d |-> 0, nan |-> FALSE],
     finalPrice |-> [t |-> ToFixed(0, 0), d |-> 0, nan |-> FALSE]]

\* The clock.  The steps reach each TTL, one ms before it and one after.
TickSteps == {1, ACCOUNT_TTL - 1, TRADES_TTL - 1, EXCHANGE_INFO_TTL - 1}

\* Date.now() moves on by one of steps.
Advance(steps) ==
    /\ ticks < MaxTicks
    /\ \E d \in steps : now' = now + d
    /\ ticks' = ticks + 1
    /\ UNCHANGED <<basisVars, cacheVars, upVer, calls, last, nCalls,
                   handlerVars>>

Tick == Advance(TickSteps)

\* The exchange moves on to its next snapshot.
UpstreamChange ==
    /\ upVer < MaxVer
    /\ upVer' = upVer + 1
    /\ UNCHANGED <<basisVars, cacheVars, now, ticks, calls, last, nCalls,
                   handlerVars>>

Idle == [pc |-> "idle", cat |-> "account", key |-> Global, at |-> 0,
         seen |-> NoEntry, ver |-> 0]
NoCall == [done |-> FALSE, cat |-> "account", key |-> Global, at |-> 0,
           seen |-> NoEntry, fetched |-> FALSE, ok |-> FALSE, val |-> 0,
           doneAt |-> 0]

ServerStart ==
    /\ now = 0
    /\ ticks = 0
    /\ upVer = 0
    /\ CacheStart
    /\ calls = [c \in Callers |-> Idle]
    /\ last = [c \in Callers |-> NoCall]
    /\ nCalls = 0
    /\ reqs = [r \in Reqs |-> NoReq]
    /\ nFails = 0
    /\ positions = [s \in {} |-> 0]

\* A handler calls a getter: the code up to the getter's first await.
\* A hit returns the cached data at once; a miss sends the request.
Call(c, cat, key) ==
    /\ calls[c].pc = "idle"
    /\ nCalls < MaxCalls
    /\ nCalls' = nCalls + 1
    /\ IF Hit(cat, key)
       THEN /\ last' = [last EXCEPT ![c] =
                   [done |-> TRUE, cat |-> cat, key |-> key, at |-> now,
                    seen |-> Entry(cat, key), fetched |-> FALSE, ok |-> TRUE,
                    val |-> Entry(cat, key).data, doneAt |-> now]]
            /\ UNCHANGED calls
       ELSE /\ calls' = [calls EXCEPT ![c] =
                   [pc |-> "await", cat |-> cat, key |-> key, at |-> now,
                    seen |-> Entry(cat, key), ver |-> upVer]]
            /\ UNCHANGED last
    /\ UNCHANGED <<basisVars, cacheVars, now, ticks, upVer, handlerVars>>

\* The exchange answers: the getter stores the answer with the time of
\* the answer and returns it.  The answer is a snapshot the exchange held
\* between the request and now.
FetchOk(c) ==
    /\ calls[c].pc = "await"
    /\ \E d \in calls[c].ver .. upVer :
        /\ Store(calls[c].cat, calls[c].key, d)
        /\ last' = [last EXCEPT ![c] =
               [done |-> TRUE, cat |-> calls[c].cat, key |-> calls[c].key,
                at |-> calls[c].at, seen |-> calls[c].seen, fetched |-> TRUE,
                ok |-> TRUE, val |-> d, doneAt |-> now]]
    /\ calls' = [calls EXCEPT ![c] = Idle]
    /\ UNCHANGED <<basisVars, now, ticks, upVer, nCalls, handlerVars>>

\* Faulty variant: a failed request stamps the entry it read as new.
FetchFailStamps(c) ==
    /\ calls[c].pc = "await"
    /\ Store(calls[c].cat, calls[c].key, calls[c].seen.data)
    /\ last' = [last EXCEPT ![c] =
           [done |-> TRUE, cat |-> calls[c].cat, key |-> calls[c].key,
            at |-> calls[c].at, seen |-> calls[c].seen, fetched |-> TRUE,
            ok |-> FALSE, val |-> 0, doneAt |-> now]]
    /\ calls' = [calls EXCEPT ![c] = Idle]
    /\ UNCHANGED <<basisVars, now, ticks, upVer, nCalls, handlerVars>>

\* The request fails: axios throws, the getter stores nothing.
FetchFail(c) ==
    /\ calls[c].pc = "await"
    /\ last' = [last EXCEPT ![c] =
           [done |-> TRUE, cat |-> calls[c].cat, key |-> calls[c].key,
            at |-> calls[c].at, seen |-> calls[c].seen, fetched |-> TRUE,
            ok |-> FALSE, val |-> 0, doneAt |-> now]]
    /\ calls' = [calls EXCEPT ![c] = Idle]
    /\ UNCHANGED <<basisVars, cacheVars, now, ticks, upVer, nCalls,
                   handlerVars>>

InitCache ==
    /\ FEE_RATE = 0
    /\ BasisStart
    /\ ServerStart
    /\ order = NoOrder
    /\ world = WorldOf([s \in Symbols |-> <<>>])

NextCache ==
    \/ Tick
    \/ UpstreamChange
    \/ \E c \in Callers : \E cat \in Cats : \E key \in KeysOf(cat) :
           Call(c, cat, key)
    \/ \E c \in Callers : FetchOk(c)
    \/ \E c \in Callers : FetchFail(c)

SpecCache == InitCache /\ [][NextCache]_vars

\* ------------------------------------------------------------------------
\* Claims about the cache
\* ------------------------------------------------------------------------
TtlOf(cat) ==
    CASE cat = "account" -> ACCOUNT_TTL
      [] cat = "trades" -> TRADES_TTL
      [] cat = "prices" -> PRICE_TTL
      [] cat = "exchangeInfo" -> EXCHANGE_INFO_TTL

\* The entry a call read was there and younger than its category's TTL.
ReadFresh(r) == r.seen.has /\ r.at - r.seen.ts < TtlOf(r.cat)

\* The entry a completed call left in the cache for its key.
LeftBy(r) ==
    IF r.fetched THEN [has |-> TRUE, data |-> r.val, ts |-> r.doneAt]
    ELSE r.seen

\* C1: under every interleaving, a getter call answers from the cache
\* without a fetch only if the entry it read was younger than the TTL of
\* its category at the read; a call that read no entry or an entry at
\* least TTL old has sent a fetch, whether it is still waiting or is done.
C1_FreshOrFetched ==
    /\ \A c \in Callers :
          last[c].done => (last[c].fetched <=> ~ReadFresh(last[c]))
    /\ \A c \in Callers :
          calls[c].pc = "await" => ~ReadFresh(calls[c])

\* C1 witness: one call found no entry and fetched, and a later call that
\* read the entry exactly TTL after it was stored has fetched too.
C1_Witness ==
    \E c, d \in Callers :
        /\ last[c].done /\ last[c].fetched /\ last[c].ok /\ ~last[c].seen.has
        /\ last[d].done /\ last[d].fetched /\ last[d].seen = LeftBy(last[c])
        /\ last[d].at - last[d].seen.ts = TtlOf(last[d].cat)

\* A call d made after call c returned, for the same key, that found the
\* entry c left.
Follows(c, d) ==
    /\ last[c].done /\ last[c].ok
    /\ last[d].done
    /\ last[d].cat = last[c].cat /\ last[d].key = last[c].key
    /\ last[d].seen = LeftBy(last[c])

\* C2: of two calls for one key, the second made less than TTL after the
\* stored timestamp is answered with the stored value, the value the first
\* returned, and sends no fetch; made TTL or more after the stored
\* timestamp it sends a fetch again.
C2_OneFetchWithinTtl ==
    \A c, d \in Callers :
        (c # d /\ Follows(c, d)) =>
            IF last[d].at - last[d].seen.ts < TtlOf(last[d].cat)
            THEN ~last[d].fetched /\ last[d].ok /\ last[d].val = last[c].val
            ELSE last[d].fetched

\* C2 witness: a call fetched, a later call within TTL was answered with
\* the stored value although the exchange had moved on.
C2_Witness ==
    \E c, d \in Callers :
        /\ c # d /\ Follows(c, d)
        /\ last[c].fetched /\ ~last[d].fetched
        /\ last[d].at > last[c].doneAt
        /\ last[d].val = last[c].val /\ upVer > last[d].val

\* Two completed calls for one key that read the same entry, missing or
\* at least TTL old at each read: neither saw what the other stored, so
\* both read before either refresh completed.
SameStale(c, d) ==
    /\ c # d
    /\ last[c].done /\ last[d].done
    /\ last[c].cat = last[d].cat /\ last[c].key = last[d].key
    /\ last[c].seen = last[d].seen
    /\ ~ReadFresh(last[c]) /\ ~ReadFresh(last[d])

\* C20: there is no single flight.  Two calls for one key that both read
\* a missing or stale entry before either refresh completed have each
\* sent a fetch of their own; each returns the value it fetched, and when
\* both have stored, the entry holds the value and timestamp of one of the
\* two refreshes, the one that completed last.
C20_LastWriteWins ==
    \A c, d \in Callers :
        SameStale(c, d) =>
            /\ last[c].fetched /\ last[d].fetched
            /\ (last[c].ok /\ last[d].ok) =>
                   /\ Entry(last[c].cat, last[c].key)
                          \in {LeftBy(last[c]), LeftBy(last[d])}
                   /\ last[c].doneAt < last[d].doneAt =>
                          Entry(last[c].cat, last[c].key) = LeftBy(last[d])

\* C20 witness: two overlapping trades calls fetched different snapshots;
\* the one that completed first returned its own value, which the entry no
\* longer holds, and the entry is the one the later completion stored.
C20_Witness ==
    \E c, d \in Callers :
        /\ SameStale(c, d)
        /\ last[c].cat = "trades"
        /\ last[c].ok /\ last[d].ok
        /\ last[c].fetched /\ last[d].fetched
        /\ last[c].doneAt < last[d].doneAt
        /\ last[c].val # last[d].val
        /\ Entry(last[c].cat, last[c].key) = LeftBy(last[d])
        /\ Entry(last[c].cat, last[c].key).data # last[c].val

\* The fetch of caller c fails in this step.
Fails(c) ==
    /\ calls[c].pc = "await"
    /\ calls'[c].pc = "idle"
    /\ last'[c].done /\ ~last'[c].ok

\* Call d was made after call c, for the same key, had failed.
AfterFailure(c, d) ==
    /\ c # d
    /\ last[c].done /\ last[c].fetched /\ ~last[c].ok
    /\ last[d].done
    /\ last[d].cat = last[c].cat /\ last[d].key = last[c].key
    /\ last[d].at >= last[c].doneAt

\* C24: a failed fetch changes no cache state: the step in which a getter's
\* request fails leaves the entry of its key, value and timestamp, and
\* every other entry as they were; a later call for the key then fetches
\* again if the entry it reads is missing or stale and is served the entry
\* if that is within its TTL.
C24_FailureLeavesCache ==
    /\ [][(\E c \in Callers : Fails(c)) =>
              (cache' = cache /\ exchangeInfoCache' = exchangeInfoCache)]_vars
    /\ [](\A c, d \in Callers :
              AfterFailure(c, d) =>
                  IF ReadFresh(last[d])
                  THEN ~last[d].fetched /\ last[d].val = last[d].seen.data
                  ELSE last[d].fetched)

\* C24 witness: a trades call that found no entry failed; a later call for
\* the same key still found no entry, fetched again and stored its answer.
C24_Witness ==
    \E c, d \in Callers :
        /\ AfterFailure(c, d)
        /\ last[c].cat = "trades"
        /\ ~last[c].seen.has
        /\ last[d].at > last[c].doneAt
        /\ last[d].seen = last[c].seen
        /\ last[d].fetched /\ last[d].ok
        /\ Entry(last[d].cat, last[d].key) = LeftBy(last[d])

\* C25: under every interleaving of overlapping refreshes of one key, an
\* entry is never overwritten with a snapshot the exchange produced before
\* the snapshot already stored: the version of the stored value never
\* goes down.
C25_VersionsNeverGoBack ==
    [][\A cat \in Cats : \A key \in KeysOf(cat) :
           (Entry(cat, key).has /\ Entry(cat, key)'.has) =>
               Entry(cat, key)'.data >= Entry(cat, key).data]_vars

\* ------------------------------------------------------------------------
\* Inputs of the cost-basis pass
\* ------------------------------------------------------------------------
Qtys == {Num(1), Num(2), Num(3)}
Prices == {Num(10), Num(31), Num(33)}
FeeRates == {0, Unit \div 8}
\* A history of two buys and a sell: buy 1 at 100, buy 1 at 200, sell 1
\* at 300.
Scenario ==
    <<[qty |-> Num(1), price |-> Num(100), isBuyer |-> TRUE],
      [qty |-> Num(1), price |-> Num(200), isBuyer |-> TRUE],
      [qty |-> Num(1), price |-> Num(300), isBuyer |-> FALSE]>>
Trade ==
    [qty : Qtys, price : Prices, isBuyer : BOOLEAN]
        \cup {Scenario[i] : i \in 1..Len(Scenario)}

InitBasis ==
    /\ FEE_RATE \in FeeRates
    /\ BasisStart
    /\ ServerStart
    /\ order = NoOrder
    /\ world = WorldOf([s \in Symbols |-> <<>>])

\* Both loops take their next trade.
ProcessTrade ==
    /\ Len(trades) < MaxTrades
    /\ \E t \in Trade :
        /\ trades' = Append(trades, t)
        /\ pos' = PosStep(pos, t, FEE_RATE)
        /\ be' = BeStep(be, t, FEE_RATE)
        /\ prev' = [pos |-> pos, be |-> be]
    /\ UNCHANGED <<FEE_RATE, cacheVars, callVars, handlerVars>>

NextBasis == ProcessTrade

SpecBasis == InitBasis /\ [][NextBasis]_vars

\* ------------------------------------------------------------------------
\* Claims about the cost-basis pass
\* ------------------------------------------------------------------------
LastTrade == trades[Len(trades)]
AllBuys(ts) == \A i \in 1..Len(ts) : ts[i].isBuyer

\* The exact sum of the quantities, in units of 2^-FracBits.
RECURSIVE SumQty(_)
SumQty(ts) ==
    IF ts = <<>> THEN 0 ELSE SumQty(Tail(ts)) + Head(ts).qty

\* The exact sum of qty * price * (1 + feeRate), in units of 2^-(3 FracBits).
RECURSIVE SumCost(_, _)
SumCost(ts, feeRate) ==
    IF ts = <<>> THEN 0
    ELSE SumCost(Tail(ts), feeRate)
         + Head(ts).qty * Head(ts).price * (Unit + feeRate)

\* x equals the exact value num/den up to k roundings: a relative error
\* of at most k * 2^-MantBits.
WithinRounding(x, num, den, k) ==
    Abs(x * den - num) * Pow2(MantBits) <= k * num

FullClosePos ==
    /\ trades # <<>> /\ ~LastTrade.isBuyer
    /\ prev.pos.openQty > 0 /\ LastTrade.qty = prev.pos.openQty
FullCloseBe ==
    /\ trades # <<>> /\ ~LastTrade.isBuyer
    /\ prev.be.qty > 0 /\ LastTrade.qty = prev.be.qty

\* C4: right after a sell of exactly the tracked open quantity, the open
\* quantity and the open cost are both exactly 0, in both passes.
C4_FullCloseZero ==
    /\ FullClosePos => (pos.openQty = 0 /\ pos.openCost = 0)
    /\ FullCloseBe => (be.qty = 0 /\ be.cost = 0)

\* C5: in both passes the tracked open quantity and open cost are >= 0
\* after every trade, oversells included, and so is the reported quantity.
C5_NeverNegative ==
    /\ pos.openQty >= 0 /\ pos.openCost >= 0
    /\ be.qty >= 0 /\ be.cost >= 0
    /\ ~BreakEvenResponse(be).totalQuantity.neg

\* C6: after every trade of the /positions pass openQty >= 0 and
\* openCost >= 0, and openQty = 0 implies openCost = 0.
C6_PositionsInvariant ==
    /\ pos.openQty >= 0
    /\ pos.openCost >= 0
    /\ pos.openQty = 0 => pos.openCost = 0

\* C7: a sell processed while the tracked open quantity is 0 leaves the
\* open quantity and the open cost as they were, and both are 0.
C7_SellAtZeroNoOp ==
    /\ (trades # <<>> /\ ~LastTrade.isBuyer /\ prev.pos.openQty = 0) =>
           (pos = prev.pos /\ pos.openQty = 0 /\ pos.openCost = 0)
    /\ (trades # <<>> /\ ~LastTrade.isBuyer /\ prev.be.qty = 0) =>
           (be = prev.be /\ be.qty = 0 /\ be.cost = 0)

\* C8: whenever the /positions pass ends with an open position, the
\* breakEven and the quantity /breakeven/:symbol reports over the same
\* trades are the breakEven and positionAmt /positions reports.
C8_EndpointsAgree ==
    pos.openQty > 0 =>
        /\ BreakEvenResponse(be).breakEven
               = ToFixed(FDiv(pos.openCost, pos.openQty), 8)
        /\ BreakEvenResponse(be).totalQuantity = ToFixed(pos.openQty, 8)

\* ------------------------------------------------------------------------
\* GET /positions and GET /breakeven/:symbol
\* ------------------------------------------------------------------------
\* [`${a.asset}USDT`, `${a.asset}USDC`, `${a.asset}USD`]
CandidatesOf(asset) == [i \in 1..3 |-> asset \o Quotes[i]]

\* Faulty variant: the filter keeps assets without a balance.
EligibleAssetsAnyBalance(balances) ==
    SelectSeq([i \in 1..Len(balances) |->
                  [asset |-> balances[i].asset,
                   qty |-> FAdd(balances[i].free, balances[i].locked)]],
              LAMBDA a : a.asset \notin {"USD", "USDT", "USDC"})

\* acct.balances.map(...).filter(...)
EligibleAssets(balances) ==
    SelectSeq([i \in 1..Len(balances) |->
                  [asset |-> balances[i].asset,
                   qty |-> FAdd(balances[i].free, balances[i].locked)]],
              LAMBDA a : a.qty > 0 /\ a.asset \notin {"USD", "USDT", "USDC"})

\* Faulty variant: the market-value filter is missing.
PositionOfNoValueFilter(symbol, ts, price) ==
    LET s         == PositionsPass(ts, FEE_RATE)
        value     == FMul(s.openQty, price)
        breakEven == FDiv(s.openCost, s.openQty)
        pnl       == FMul(FSub(price, breakEven), s.openQty)
    IN  IF s.openQty <= 0 THEN <<>>
        ELSE << [symbol |-> symbol,
                 positionAmt |-> ToFixed(s.openQty, 8),
                 breakEven |-> ToFixed(breakEven, 8),
                 entryPrice |-> ToFixed(breakEven, 8),
                 currentPrice |-> ToFixed(price, 8),
                 marketValue |-> ToFixed(value, 2),
                 unrealizedPL |-> ToFixed(pnl, 2)] >>

\* What /positions pushes for a resolved symbol: nothing when the pass
\* leaves no open quantity or a market value under 10, else one Position.
PositionOf(symbol, ts, price) ==
    LET s         == PositionsPass(ts, FEE_RATE)
        value     == FMul(s.openQty, price)
        breakEven == FDiv(s.openCost, s.openQty)
        pnl       == FMul(FSub(price, breakEven), s.openQty)
    IN  IF s.openQty <= 0 THEN <<>>
        ELSE IF value < Num(10) THEN <<>>
        ELSE << [symbol |-> symbol,
                 positionAmt |-> ToFixed(s.openQty, 8),
                 breakEven |-> ToFixed(breakEven, 8),
                 entryPrice |-> ToFixed(breakEven, 8),
                 currentPrice |-> ToFixed(price, 8),
                 marketValue |-> ToFixed(value, 2),
                 unrealizedPL |-> ToFixed(pnl, 2)] >>

\* if(!symbol || !trades || price===null)
Unresolved(st) ==
    st.symbol = Null \/ st.trades = <<>> \/ st.price = NoPrice

\* The next iteration of for (const a of assets).
NextAsset(st) ==
    [st EXCEPT !.ai = @ + 1, !.ci = 1, !.symbol = Null, !.trades = <<>>,
               !.price = NoPrice, !.pc = "cand"]

\* Faulty variant: an asset without a resolved symbol is not skipped; iterating
\* its null trades throws and the request answers 500.
SkipUnresolvedThrows(st) == [st EXCEPT !.pc = "done", !.status = 500]

\* continue, for an asset without a resolved symbol.
SkipUnresolved(st) == NextAsset(st)

\* Faulty variant: the Position is put in front of the list (unshift).
AfterCandidatesUnshift(st) ==
    IF Unresolved(st)
    THEN SkipUnresolved(st)
    ELSE NextAsset([st EXCEPT !.positions =
             PositionOf(st.symbol, st.trades, st.price) \o @])

\* After the loop over the candidates: skip the asset or push its Position.
AfterCandidates(st) ==
    IF Unresolved(st)
    THEN SkipUnresolved(st)
    ELSE NextAsset([st EXCEPT !.positions =
             @ \o PositionOf(st.symbol, st.trades, st.price)])

\* price = await getPriceCached(s) has returned p: break.
GotPrice(st, p) == [st EXCEPT !.price = p, !.pc = "after"]

\* Faulty variant: the price is asked for whether or not the candidate has
\* trades.
GotTradesAlwaysPrices(st, C, s, t) ==
    LET st2 == [st EXCEPT !.symbol = s, !.trades = t,
                          !.priced = Append(@, s)]
    IN  IF PriceHit(C.prices[s])
        THEN GotPrice(st2, C.prices[s].data)
        ELSE [st2 EXCEPT !.pc = "price"]

\* t = await getTradesCached(s) has returned t, C being the cache then.
GotTrades(st, C, s, t) ==
    IF Len(t) = 0
    THEN [st EXCEPT !.ci = @ + 1, !.pc = "cand"]
    ELSE LET st2 == [st EXCEPT !.symbol = s, !.trades = t,
                               !.priced = Append(@, s)]
         IN  IF PriceHit(C.prices[s])
             THEN GotPrice(st2, C.prices[s].data)
             ELSE [st2 EXCEPT !.pc = "price"]

\* Faulty variant: the failure of a candidate's fetch is not caught inside
\* the loop and reaches the catch of the handler.
SwallowRethrows(st) == [st EXCEPT !.pc = "done", !.status = 500]

\* catch{} inside the loop over the candidates: on to the next one.
Swallow(st) == [st EXCEPT !.ci = @ + 1, !.pc = "cand"]

\* The top of the loop over the candidates of asset ai.
NextCandidate(st, C) ==
    IF st.ai > Len(st.assets)
    THEN [st EXCEPT !.pc = "done", !.status = 200]
    ELSE IF st.ci > 3
    THEN [st EXCEPT !.pc = "after"]
    ELSE LET s   == CandidatesOf(st.assets[st.ai].asset)[st.ci]
             st2 == [st EXCEPT !.asked = Append(@, s)]
         IN  IF TradesHit(C.trades[s])
             THEN GotTrades(st2, C, s, C.trades[s].data)
             ELSE [st2 EXCEPT !.pc = "trades"]

\* The handler of /positions runs from one suspension to the next: Run
\* follows its code, reading the cache C, until a getter has to fetch or
\* the response is sent.
RECURSIVE Run(_, _)
Run(st, C) ==
    IF st.pc = "cand" THEN Run(NextCandidate(st, C), C)
    ELSE IF st.pc = "after" THEN Run(AfterCandidates(st), C)
    ELSE st

\* acct = await getAccountCached() has returned acct.
GotAccount(st, acct) ==
    [st EXCEPT !.assets = EligibleAssets(acct.balances), !.pc = "cand"]

\* /breakeven/:symbol once getTradesCached has returned ts.
BreakEvenDone(st, ts) ==
    [st EXCEPT !.pc = "done", !.status = 200,
               !.answer = BreakEvenResponse(BreakEvenPass(ts, FEE_RATE))]

\* Faulty variant: the catch of a handler answers 200 as if nothing failed.
FailedAnswersEmpty(st) == [st EXCEPT !.pc = "done", !.status = 200]

\* The catch of a handler: res.status(500).
Failed(st) == [st EXCEPT !.pc = "done", !.status = 500]

\* The symbol of the getter call a request is suspended in.
Pending(st) ==
    IF st.kind = "breakeven" THEN st.sym
    ELSE IF st.pc = "price" THEN st.symbol
    ELSE CandidatesOf(st.assets[st.ai].asset)[st.ci]

\* GET /positions arrives.
StartPositions(r) ==
    /\ reqs[r].pc \in {"idle", "done"}
    /\ reqs[r].n < MaxReqs
    /\ LET st == [NoReq EXCEPT !.n = reqs[r].n + 1, !.kind = "positions"]
       IN  reqs' = [reqs EXCEPT ![r] =
               IF AccountHit(cache.account)
               THEN Run(GotAccount(st, cache.account.data), cache)
               ELSE [st EXCEPT !.pc = "acct"]]
    /\ UNCHANGED <<basisVars, cacheVars, callVars, world, positions, nFails,
                   order>>

\* GET /breakeven/:symbol arrives.
StartBreakEven(r, symbol) ==
    /\ reqs[r].pc \in {"idle", "done"}
    /\ reqs[r].n < MaxReqs
    /\ LET st == [NoReq EXCEPT !.n = reqs[r].n + 1, !.kind = "breakeven",
                               !.sym = symbol,
                               !.asked = <<symbol>>]
       IN  reqs' = [reqs EXCEPT ![r] =
               IF TradesHit(cache.trades[symbol])
               THEN BreakEvenDone(st, cache.trades[symbol].data)
               ELSE [st EXCEPT !.pc = "trades"]]
    /\ UNCHANGED <<basisVars, cacheVars, callVars, world, positions, nFails,
                   order>>

\* The account fetch of a request answers.
AccountResponse(r) ==
    /\ reqs[r].pc = "acct"
    /\ LET C == WithAccount(cache, world.account)
       IN  /\ cache' = C
           /\ reqs' = [reqs EXCEPT ![r] =
                  Run(GotAccount(@, world.account), C)]
    /\ UNCHANGED <<basisVars, exchangeInfoCache, callVars, world, positions,
                   nFails, order>>

\* The account fetch of a request fails: the handler's catch answers 500.
AccountError(r) ==
    /\ nFails < MaxFails
    /\ nFails' = nFails + 1
    /\ reqs[r].pc = "acct"
    /\ reqs' = [reqs EXCEPT ![r] =
           Failed([@ EXCEPT !.failed = @ \cup {<<"account", Global>>}])]
    /\ UNCHANGED <<basisVars, cacheVars, callVars, world, positions, order>>

\* The trade-history fetch of a request answers.
TradesResponse(r) ==
    /\ reqs[r].pc = "trades"
    /\ LET s == Pending(reqs[r])
           d == world.tradesOf[s]
           C == WithTrades(cache, s, d)
       IN  /\ cache' = C
           /\ reqs' = [reqs EXCEPT ![r] =
                  IF @.kind = "breakeven" THEN BreakEvenDone(@, d)
                  ELSE Run(GotTrades(@, C, s, d), C)]
    /\ UNCHANGED <<basisVars, exchangeInfoCache, callVars, world, positions,
                   nFails, order>>

\* The trade-history fetch of a request fails: /positions swallows it and
\* goes on with the next candidate, /breakeven answers 500.
TradesError(r) ==
    /\ nFails < MaxFails
    /\ nFails' = nFails + 1
    /\ reqs[r].pc = "trades"
    /\ LET st == [reqs[r] EXCEPT !.failed =
                     @ \cup {<<"trades", Pending(reqs[r])>>}]
       IN  reqs' = [reqs EXCEPT ![r] =
               IF st.kind = "breakeven" THEN Failed(st)
               ELSE Run(Swallow(st), cache)]
    /\ UNCHANGED <<basisVars, cacheVars, callVars, world, positions, order>>

\* The price fetch of a request answers.
PriceResponse(r) ==
    /\ reqs[r].pc = "price"
    /\ LET s == Pending(reqs[r])
           p == world.priceOf[s]
           C == WithPrice(cache, s, p)
       IN  /\ cache' = C
           /\ reqs' = [reqs EXCEPT ![r] = Run(GotPrice(@, p), C)]
    /\ UNCHANGED <<basisVars, exchangeInfoCache, callVars, world, positions,
                   nFails, order>>

\* The price fetch of a request fails: the same catch swallows it, symbol
\* and trades stay set and the loop goes on with the next candidate.
PriceError(r) ==
    /\ nFails < MaxFails
    /\ nFails' = nFails + 1
    /\ reqs[r].pc = "price"
    /\ LET st == [reqs[r] EXCEPT !.failed =
                     @ \cup {<<"price", Pending(reqs[r])>>}]
       IN  reqs' = [reqs EXCEPT ![r] =
               Run(Swallow(st), cache)]
    /\ UNCHANGED <<basisVars, cacheVars, callVars, world, positions, order>>

\* Between and during requests an account TTL or a trades TTL passes.
Elapse == Advance({ACCOUNT_TTL, TRADES_TTL})

\* The symbols /breakeven is asked for.
BreakEvenSymbols == {"BTCUSDT"}

Init ==
    /\ FEE_RATE = Unit \div 8
    /\ BasisStart
    /\ ServerStart
    /\ order = NoOrder
    /\ world \in {WorldOf(f) : f \in TradeMaps}

Next ==
    \/ Elapse
    \/ \E r \in Reqs : StartPositions(r)
    \/ \E r \in Reqs : \E symbol \in BreakEvenSymbols : StartBreakEven(r, symbol)
    \/ \E r \in Reqs : AccountResponse(r)
    \/ \E r \in Reqs : AccountError(r)
    \/ \E r \in Reqs : TradesResponse(r)
    \/ \E r \in Reqs : TradesError(r)
    \/ \E r \in Reqs : PriceResponse(r)
    \/ \E r \in Reqs : PriceError(r)

Spec == Init /\ [][Next]_vars

\* The request numbered n on connection r is suspended in the getter call
\* pc for candidate ci of asset ai.
Suspended(r, n, pc, ai, ci) ==
    /\ reqs[r].n = n
    /\ reqs[r].pc = pc
    /\ reqs[r].ai = ai
    /\ reqs[r].ci = ci

\* Every outbound call returns or fails in the end: no request stays
\* suspended in one getter call for ever.
CallsReturn ==
    \A r \in Reqs : \A n \in 1..MaxReqs :
    \A pc \in {"acct", "trades", "price"} :
    \A ai \in 1..Len(Balances) : \A ci \in 1..3 :
        []<>~Suspended(r, n, pc, ai, ci)

SpecLive == Init /\ [][Next]_vars /\ CallsReturn

\* ------------------------------------------------------------------------
\* Symbol resolution of /positions
\* ------------------------------------------------------------------------
\* The assets /positions looks at, in the order of the balance list.
Eligible == EligibleAssets(world.account.balances)

\* The /positions requests that got their account and have answered.
Answered ==
    {r \in Reqs : /\ reqs[r].kind = "positions"
                  /\ reqs[r].pc = "done"
                  /\ <<"account", Global>> \notin reqs[r].failed}

\* The asset has no trade history on any of its three candidates.
AllEmpty(asset) ==
    \A i \in 1..3 : world.tradesOf[CandidatesOf(asset)[i]] = <<>>

\* The index of the candidate the Position with symbol s stands for, 0 if
\* s is no candidate of the asset.
CandidateIndex(asset, s) ==
    IF \E i \in 1..3 : CandidatesOf(asset)[i] = s
    THEN CHOOSE i \in 1..3 : CandidatesOf(asset)[i] = s
    ELSE 0

\* The symbols of the Positions a request answered with.
SymbolsOf(st) == {st.positions[k].symbol : k \in 1..Len(st.positions)}

\* C9: the candidates of an asset are asked for their trades in the order
\* USDT, USDC, USD, and the symbol of an asset's Position is the first
\* candidate whose trade history is non-empty: no candidate before it, whose
\* trade history was obtained, has trades.
C9_FirstNonEmptyWins ==
    \A r \in Answered :
        \A i \in 1..Len(Eligible) :
            \A s \in SymbolsOf(reqs[r]) :
                \A e \in 1..3 :
                    (e < CandidateIndex(Eligible[i].asset, s)
                     /\ <<"trades", CandidatesOf(Eligible[i].asset)[e]>>
                            \notin reqs[r].failed)
                    => world.tradesOf[CandidatesOf(Eligible[i].asset)[e]] = <<>>

\* The first candidate of the asset with a non-empty trade history.
FirstTraded(asset) ==
    CandidatesOf(asset)[CHOOSE i \in 1..3 :
        /\ world.tradesOf[CandidatesOf(asset)[i]] # <<>>
        /\ \A e \in 1..(i - 1) : world.tradesOf[CandidatesOf(asset)[e]] = <<>>]

\* No fetch for a candidate of the asset failed in the request.
Undisturbed(st, asset) ==
    \A i \in 1..3 : \A g \in {"trades", "price"} :
        <<g, CandidatesOf(asset)[i]>> \notin st.failed

\* The Position the asset should get from the exchange's data.
Expected(asset) ==
    PositionOf(FirstTraded(asset), world.tradesOf[FirstTraded(asset)],
               world.priceOf[FirstTraded(asset)])

\* C10: when an eligible asset has an empty trade history on all three
\* candidates, a /positions request that got its account answers 200, with
\* no Position for that asset and with the Position of every other asset
\* whose fetches went through.
C10_AllEmptySkipped ==
    \A r \in Answered :
        \A i \in 1..Len(Eligible) :
            AllEmpty(Eligible[i].asset) =>
                /\ reqs[r].status = 200
                /\ \A e \in 1..3 :
                       CandidatesOf(Eligible[i].asset)[e] \notin SymbolsOf(reqs[r])
                /\ \A j \in 1..Len(Eligible) :
                       (/\ ~AllEmpty(Eligible[j].asset)
                        /\ Undisturbed(reqs[r], Eligible[j].asset))
                       => \E k \in 1..Len(reqs[r].positions) :
                              <<reqs[r].positions[k]>> = Expected(Eligible[j].asset)

\* Reached: BTC has a balance and no trades on BTCUSDT, BTCUSDC and BTCUSD,
\* all three were asked, and the answer is 200 with the ETHUSDC Position.
C10_Witness ==
    \E r \in Answered :
        /\ AllEmpty("BTC")
        /\ \E i \in 1..Len(Eligible) : Eligible[i].asset = "BTC"
        /\ \A e \in 1..3 : \E k \in 1..Len(reqs[r].asked) :
               reqs[r].asked[k] = CandidatesOf("BTC")[e]
        /\ reqs[r].status = 200
        /\ SymbolsOf(reqs[r]) = {"ETHUSDC"}

\* ------------------------------------------------------------------------
\* Failures inside /positions
\* ------------------------------------------------------------------------
\* The /positions requests, answered or not.
PositionsReqs == {r \in Reqs : reqs[r].kind = "positions"}

\* The position of symbol s in the sequence q, 0 if it is not in it.
IndexIn(q, s) ==
    IF \E k \in 1..Len(q) : q[k] = s
    THEN CHOOSE k \in 1..Len(q) : q[k] = s
    ELSE 0

\* The index in Eligible of the asset s is a candidate of, 0 if none.
AssetIndex(s) ==
    IF \E i \in 1..Len(Eligible) : CandidateIndex(Eligible[i].asset, s) > 0
    THEN CHOOSE i \in 1..Len(Eligible) :
             CandidateIndex(Eligible[i].asset, s) > 0
    ELSE 0

\* The asset has the Position the exchange's data give it, if they give one.
HasExpected(st, asset) ==
    (~AllEmpty(asset) /\ Expected(asset) # <<>>) =>
        \E k \in 1..Len(st.positions) : <<st.positions[k]>> = Expected(asset)

\* C11: a failed trade-history fetch for a candidate does not fail the
\* /positions request: no 500 is answered, the next candidate in the order
\* USDT, USDC, USD is asked right after it, and the answer is 200 with the
\* Position of every later asset whose fetches went through.
C11_TradesFailureSwallowed ==
    \A r \in PositionsReqs : \A s \in Symbols :
        <<"trades", s>> \in reqs[r].failed =>
            /\ reqs[r].status # 500
            /\ \A e \in 1..2 :
                   CandidatesOf(Eligible[AssetIndex(s)].asset)[e] = s =>
                       /\ IndexIn(reqs[r].asked, s) < Len(reqs[r].asked)
                       /\ reqs[r].asked[IndexIn(reqs[r].asked, s) + 1]
                              = CandidatesOf(Eligible[AssetIndex(s)].asset)[e + 1]
            /\ reqs[r].pc = "done" =>
                   /\ reqs[r].status = 200
                   /\ \A j \in (AssetIndex(s) + 1)..Len(Eligible) :
                          Undisturbed(reqs[r], Eligible[j].asset)
                              => HasExpected(reqs[r], Eligible[j].asset)

\* Reached: the trade-history fetch of BTCUSDT failed, BTCUSDC was asked
\* next and gave the BTC Position, and the ETHUSDC Position follows.
C11_Witness ==
    \E r \in PositionsReqs :
        /\ <<"trades", "BTCUSDT">> \in reqs[r].failed
        /\ reqs[r].pc = "done" /\ reqs[r].status = 200
        /\ reqs[r].asked[IndexIn(reqs[r].asked, "BTCUSDT") + 1] = "BTCUSDC"
        /\ SymbolsOf(reqs[r]) = {"BTCUSDC", "ETHUSDC"}

\* A step in which the account fetch of request r fails.
AccountFails(r) ==
    /\ reqs[r].kind = "positions" /\ reqs[r].pc = "acct"
    /\ <<"account", Global>> \in reqs'[r].failed

\* C12: when the account fetch of a /positions request fails, the request
\* answers 500 at once, with no Position, without having asked for any
\* trade history or price, and the cache (the account entry included) is
\* as it was before.
C12_AccountFailureAborts ==
    [][\A r \in Reqs :
          AccountFails(r) =>
              /\ reqs'[r].pc = "done" /\ reqs'[r].status = 500
              /\ reqs'[r].positions = <<>>
              /\ reqs'[r].asked = <<>> /\ reqs'[r].priced = <<>>
              /\ cache' = cache]_vars

\* Reached: an earlier request stored the account, the entry went stale,
\* the refetch of a second request failed, and the stale entry is still
\* there.
C12_Witness ==
    \E r \in PositionsReqs :
        /\ <<"account", Global>> \in reqs[r].failed
        /\ reqs[r].status = 500 /\ reqs[r].n = 2
        /\ cache.account.has /\ now - cache.account.ts >= ACCOUNT_TTL

\* ------------------------------------------------------------------------
\* What /positions emits
\* ------------------------------------------------------------------------
\* The open quantity the exchange's trades of symbol s amount to.
OpenQtyOf(s) == PositionsPass(world.tradesOf[s], FEE_RATE).openQty

\* The market value of that quantity at the exchange's price.
ValueOf(s) == FMul(OpenQtyOf(s), world.priceOf[s])

\* C13: every Position /positions holds for its answer, at any moment of
\* any request, is for a symbol with open quantity > 0 and market value
\* openQty * currentPrice >= 10, and reports that quantity, price and
\* value; a symbol with an open quantity whose value is below 10 is never
\* among them.
C13_OnlyOpenAndWorth10 ==
    \A r \in PositionsReqs :
        \A k \in 1..Len(reqs[r].positions) :
            LET p == reqs[r].positions[k] IN
                /\ OpenQtyOf(p.symbol) > 0
                /\ ValueOf(p.symbol) >= Num(10)
                /\ p.positionAmt = ToFixed(OpenQtyOf(p.symbol), 8)
                /\ p.currentPrice = ToFixed(world.priceOf[p.symbol], 8)
                /\ p.marketValue = ToFixed(ValueOf(p.symbol), 2)
                /\ ~p.marketValue.neg /\ p.marketValue.whole >= 10

\* Reached: BTCUSD was resolved with its trades and price, its open
\* quantity is 1/2 and worth 5, and the answer is 200 without it.
C13_Witness ==
    \E r \in PositionsReqs :
        /\ reqs[r].pc = "done" /\ reqs[r].status = 200
        /\ IndexIn(reqs[r].priced, "BTCUSD") > 0
        /\ <<"price", "BTCUSD">> \notin reqs[r].failed
        /\ OpenQtyOf("BTCUSD") > 0 /\ ValueOf("BTCUSD") < Num(10)
        /\ SymbolsOf(reqs[r]) = {"ETHUSDC"}

\* The index in the account's balance list of the asset symbol s is a
\* candidate of, 0 if there is none.
BalanceIndex(s) ==
    IF \E i \in 1..Len(world.account.balances) :
           CandidateIndex(world.account.balances[i].asset, s) > 0
    THEN CHOOSE i \in 1..Len(world.account.balances) :
             CandidateIndex(world.account.balances[i].asset, s) > 0
    ELSE 0

\* C14: the Positions of a /positions request are in the order of their
\* assets in the account's balance list, and no two of them are for the
\* same asset.
C14_BalanceOrder ==
    \A r \in PositionsReqs :
        \A k, l \in 1..Len(reqs[r].positions) :
            k < l =>
                /\ BalanceIndex(reqs[r].positions[k].symbol) > 0
                /\ BalanceIndex(reqs[r].positions[k].symbol)
                       < BalanceIndex(reqs[r].positions[l].symbol)

\* Reached: an answer with the Position of BTC, first in the balance list,
\* before the Position of ETH, last in it.
C14_Witness ==
    \E r \in PositionsReqs :
        /\ reqs[r].pc = "done" /\ reqs[r].status = 200
        /\ Len(reqs[r].positions) = 2
        /\ BalanceIndex(reqs[r].positions[1].symbol) = 1
        /\ BalanceIndex(reqs[r].positions[2].symbol) = 4

\* Symbol s is a candidate of an asset of the balance list that is no
\* quote currency and has free + locked > 0.
OfHeldAsset(s) ==
    \E i \in 1..Len(world.account.balances) :
        LET b == world.account.balances[i] IN
            /\ CandidateIndex(b.asset, s) > 0
            /\ b.asset \notin {"USD", "USDT", "USDC"}
            /\ b.free + b.locked > 0

\* C15: every symbol a /positions request asks the trade history or the
\* price of, and every symbol it emits a Position for, belongs to an asset
\* that is not USD, USDT or USDC and whose free + locked balance is > 0.
C15_OnlyHeldNonQuoteAssets ==
    \A r \in PositionsReqs :
        /\ \A k \in 1..Len(reqs[r].asked) : OfHeldAsset(reqs[r].asked[k])
        /\ \A k \in 1..Len(reqs[r].priced) : OfHeldAsset(reqs[r].priced[k])
        /\ \A s \in SymbolsOf(reqs[r]) : OfHeldAsset(s)

\* Reached: the balance list holds USDT with a balance and LTC without
\* one, and a request went through all its assets and answered, having
\* asked and priced symbols of BTC and ETH only.
C15_Witness ==
    \E r \in PositionsReqs :
        /\ reqs[r].pc = "done" /\ reqs[r].status = 200
        /\ \E i, j \in 1..Len(world.account.balances) :
               /\ world.account.balances[i].asset = "USDT"
               /\ world.account.balances[i].free > 0
               /\ world.account.balances[j].asset = "LTC"
               /\ world.account.balances[j].free + world.account.balances[j].locked = 0
        /\ Len(reqs[r].asked) >= 3 /\ Len(reqs[r].priced) >= 2
        /\ SymbolsOf(reqs[r]) # {}

\* ------------------------------------------------------------------------
\* Quantity and price adjustment of POST /order
\* ------------------------------------------------------------------------
\* parseFloat, Number(...) and JSON.parse of the numeral c/Cent: the nearest
\* Number.
ParseFloat(c) == Round(c * Unit, Cent)

\* Math.floor of a Number.
Floor(x) == (x \div Unit) * Unit

\* A decimal string with d fraction digits, or "NaN".
Fixed(x, d) == [t |-> ToFixed(x, d), d |-> d, nan |-> FALSE]
NaNText == [t |-> ToFixed(0, 0), d |-> 0, nan |-> TRUE]

\* parseFloat of a decimal string that is not "NaN".
ParseText(f) ==
    LET v == Round((f.t.whole * Pow10(f.d) + f.t.frac) * Unit, Pow10(f.d))
    IN  IF f.t.neg THEN -v ELSE v

\* countDecimals(num): the number of fraction digits of num.toString(),
\* the shortest decimal string that parses back to num.  (The exponent
\* notation branch needs num < 1e-6, which no Number of the model is.)
RECURSIVE CountDecimalsFrom(_, _)
CountDecimalsFrom(num, d) ==
    IF d >= FracBits \/ ParseText(Fixed(num, d)) = num
    THEN d
    ELSE CountDecimalsFrom(num, d + 1)

CountDecimals(num) == CountDecimalsFrom(num, 0)

\* roundPrice(price, tickSize).  With tickSize = 0 the quotient is
\* Infinity or NaN, times 0 is NaN, and NaN.toFixed(0) is "NaN".
RoundPrice(price, tickSize) ==
    IF tickSize = 0 THEN NaNText
    ELSE Fixed(FMul(Floor(FDiv(price, tickSize)), tickSize),
               CountDecimals(tickSize))

\* adjustQtyForLotSize(qty, stepSize, minQty).  With stepSize = 0 n is
\* NaN, NaN < minQty is false, and NaN.toFixed(0) is "NaN".
AdjustQtyForLotSize(qty, stepSize, minQty) ==
    IF stepSize = 0 THEN NaNText
    ELSE LET n == FMul(Floor(FDiv(qty, stepSize)), stepSize)
         IN  Fixed(IF n < minQty THEN minQty ELSE n, CountDecimals(stepSize))

\* Math.round(Math.log10(1 / stepSize)) for stepSize > 0 when it is >= 0:
\* the k with 10^(k - 1/2) <= 1/stepSize < 10^(k + 1/2).
RECURSIVE PrecisionFrom(_, _)
PrecisionFrom(stepSize, k) ==
    IF Unit * Unit < Pow10(2 * k + 1) * stepSize * stepSize
    THEN k
    ELSE PrecisionFrom(stepSize, k + 1)

\* toFixed(precision) throws a RangeError: the precision is Infinity
\* (stepSize = 0) or negative (1 / stepSize < 10^(-1/2)).
StepSizeThrows(stepSize) ==
    stepSize = 0 \/ 10 * Unit * Unit < stepSize * stepSize

\* adjustToStepSize(qty, stepSize), where it does not throw.
AdjustToStepSize(qty, stepSize) ==
    Fixed(FMul(Floor(FDiv(qty, stepSize)), stepSize),
          PrecisionFrom(stepSize, 0))

\* ------------------------------------------------------------------------
\* POST /order
\* ------------------------------------------------------------------------
\* res.json or the catch's res.status(500): the handler is done.
Answer(o, code) ==
    [o EXCEPT !.pc = "done", !.status = code,
              !.error = IF code = 200 THEN Null ELSE "thrown"]

\* return res.status(400).json({ error }).
Reject(o, error) == [o EXCEPT !.pc = "done", !.status = 400, !.error = error]

\* The body of GET /api/v3/exchangeInfo: the filters of its one symbol.
ExchangeInfo(filters) == [symbol |-> "BTCUSDT", filters |-> filters]

\* POST /order of src/server.js from the return of getExchangeInfo to the
\* POST to the exchange or to an early answer.
Adjust(o, info) ==
    IF o.symbol # info.symbol THEN Reject(o, "Unknown symbol")
    ELSE LET stepSize == ParseFloat(info.filters.stepSize)
             minQty   == ParseFloat(info.filters.minQty)
         IN  IF StepSizeThrows(stepSize) THEN Answer(o, 500)
             ELSE LET qty == ParseText(AdjustToStepSize(ParseFloat(o.quantity),
                                                        stepSize))
                  IN  IF qty < minQty
                      THEN Reject([o EXCEPT !.qty = qty], "Quantity < minQty")
                      ELSE IF o.type = "LIMIT" /\ o.price = 0
                      THEN Reject([o EXCEPT !.qty = qty],
                                  "LIMIT requires price")
                      ELSE [o EXCEPT !.qty = qty, !.pc = "post",
                                     !.sent = TRUE]

\* POST /order of src/server.js arrives.
OrderArrives(symbol, quantity, type, price) ==
    /\ order.pc \in {"idle", "done"}
    /\ order.n < MaxOrders
    /\ LET o == [NoOrder EXCEPT !.n = order.n + 1, !.handler = "server",
                                !.filters = order.filters,
                                !.symbol = symbol, !.quantity = quantity,
                                !.type = type, !.price = price]
       IN  order' =
               IF quantity = 0 THEN Reject(o, "Missing required parameters")
               ELSE IF ExchangeInfoHit(exchangeInfoCache)
               THEN Adjust(o, exchangeInfoCache.data)
               ELSE [o EXCEPT !.pc = "info"]
    /\ UNCHANGED <<basisVars, cacheVars, callVars, world, positions, reqs,
                   nFails>>

\* getExchangeInfo gets its answer, stores it and returns it.
InfoResponse ==
    /\ order.pc = "info"
    /\ exchangeInfoCache' = NewEntry(ExchangeInfo(order.filters))
    /\ order' = Adjust(order, ExchangeInfo(order.filters))
    /\ UNCHANGED <<basisVars, cache, callVars, world, positions, reqs,
                   nFails>>

\* The exchangeInfo request fails: the handler's catch answers 500.
InfoError ==
    /\ order.pc = "info"
    /\ nFails < MaxFails
    /\ nFails' = nFails + 1
    /\ order' = Answer(order, 500)
    /\ UNCHANGED <<basisVars, cacheVars, callVars, world, positions, reqs>>

\* The earlier POST /order: adjust quantity and price and POST them.
Submit(o) ==
    [o EXCEPT !.finalQty = AdjustQtyForLotSize(o.qty,
                               ParseFloat(o.filters.stepSize),
                               ParseFloat(o.filters.minQty)),
              !.finalPrice = RoundPrice(ParseFloat(o.price),
                                        ParseFloat(o.filters.tickSize)),
              !.pc = "post", !.sent = TRUE]

\* The earlier POST /order arrives.
LotOrderArrives(symbol, side, quantity, usdAmount, price) ==
    /\ order.pc \in {"idle", "done"}
    /\ order.n < MaxOrders
    /\ LET o == [NoOrder EXCEPT !.n = order.n + 1, !.handler = "lot",
                                !.filters = order.filters,
                                !.symbol = symbol, !.side = side,
                                !.quantity = quantity,
                                !.usdAmount = usdAmount, !.price = price]
       IN  order' =
               IF (quantity = 0 /\ usdAmount = 0) \/ price = 0
               THEN Reject(o, "Missing required fields")
               ELSE [o EXCEPT !.pc = "filters"]
    /\ UNCHANGED <<basisVars, cacheVars, callVars, world, positions, reqs,
                   nFails>>

\* POST /order of the handler that tracks positions arrives: up to the
\* exchange call it is the earlier handler.
TrackedOrderArrives(symbol, side, quantity, usdAmount, price) ==
    /\ order.pc \in {"idle", "done"}
    /\ order.n < MaxTracked
    /\ LET o == [NoOrder EXCEPT !.n = order.n + 1, !.handler = "track",
                                !.filters = order.filters,
                                !.symbol = symbol, !.side = side,
                                !.quantity = quantity,
                                !.usdAmount = usdAmount, !.price = price]
       IN  order' =
               IF (quantity = 0 /\ usdAmount = 0) \/ price = 0
               THEN Reject(o, "Missing required fields")
               ELSE [o EXCEPT !.pc = "filters"]
    /\ UNCHANGED <<basisVars, cacheVars, callVars, world, positions, reqs,
                   nFails>>

\* getFilters gets the filters of the symbol: the quantity is the one
\* given or usdAmount / price; a SELL without quantity asks /balances.
FiltersResponse ==
    /\ order.pc = "filters"
    /\ order.symbol = ExchangeInfo(order.filters).symbol
    /\ LET qty == IF order.quantity # 0 THEN ParseFloat(order.quantity)
                  ELSE FDiv(ParseFloat(order.usdAmount),
                            ParseFloat(order.price))
           o   == [order EXCEPT !.qty = qty]
       IN  order' = IF order.side = "SELL" /\ order.quantity = 0
                    THEN [o EXCEPT !.pc = "balances"]
                    ELSE Submit(o)
    /\ UNCHANGED <<basisVars, cacheVars, callVars, world, positions, reqs,
                   nFails>>

\* getFilters fails (always so for a symbol the exchange does not know).
FiltersError ==
    /\ order.pc = "filters"
    /\ nFails < MaxFails \/ order.symbol # ExchangeInfo(order.filters).symbol
    /\ nFails' = IF nFails < MaxFails THEN nFails + 1 ELSE nFails
    /\ order' = Answer(order, 500)
    /\ UNCHANGED <<basisVars, cacheVars, callVars, world, positions, reqs>>

\* The base asset of a symbol: symbol.replace(quote, "").
BaseOf(symbol) == CHOOSE a \in Assets : \E i \in 1..3 : symbol = a \o Quotes[i]

\* /balances answers: the quantity is the total of the base asset (printed
\* with 12 fraction digits, of which those after the first FracBits are 0,
\* and parsed back), or 400 when the asset is not listed with a total > 0.
BalancesResponse ==
    /\ order.pc = "balances"
    /\ LET held == {i \in 1..Len(world.account.balances) :
                       /\ world.account.balances[i].asset = BaseOf(order.symbol)
                       /\ FAdd(world.account.balances[i].free,
                               world.account.balances[i].locked) > 0}
           b    == world.account.balances[CHOOSE i \in held : TRUE]
       IN  order' =
               IF held = {} THEN Reject(order, "No balance found")
               ELSE Submit([order EXCEPT !.qty =
                       ParseText(Fixed(FAdd(b.free, b.locked), FracBits))])
    /\ UNCHANGED <<basisVars, cacheVars, callVars, world, positions, reqs,
                   nFails>>

\* /balances fails.
BalancesError ==
    /\ order.pc = "balances"
    /\ nFails < MaxFails
    /\ nFails' = nFails + 1
    /\ order' = Answer(order, 500)
    /\ UNCHANGED <<basisVars, cacheVars, callVars, world, positions, reqs>>

\* positions[symbol] as the handler creates it on the first order for the
\* symbol.
NoPosition ==
    [totalQty |-> 0, totalCost |-> 0, avgPrice |-> 0, breakEven |-> 0]

\* A faulty variant of TrackStep: the SELL branch does not reset a position
\* that is sold out.
TrackStepNoReset(p, side, qty, price) ==
    IF side = "BUY"
    THEN LET totalQty  == FAdd(p.totalQty, qty)
             totalCost == FAdd(p.totalCost, FMul(qty, price))
         IN  [totalQty |-> totalQty, totalCost |-> totalCost,
              avgPrice |-> FDiv(totalCost, totalQty),
              breakEven |-> FDiv(totalCost, totalQty)]
    ELSE IF side = "SELL"
    THEN LET totalQty  == FSub(p.totalQty, qty)
             totalCost == FSub(p.totalCost, FMul(p.avgPrice, qty))
         IN  IF totalQty = 0 THEN NoPosition
             ELSE [totalQty |-> totalQty, totalCost |-> totalCost,
                   avgPrice |-> FDiv(totalCost, totalQty),
                   breakEven |-> FDiv(totalCost, totalQty)]
    ELSE p

\* The BUY and the SELL branch of the position tracking, on the position p
\* of the symbol: a BUY adds qty and qty * price and takes the average; a
\* SELL takes qty and avgPrice * qty out, and resets a position that is
\* sold out.
TrackStep(p, side, qty, price) ==
    IF side = "BUY"
    THEN LET totalQty  == FAdd(p.totalQty, qty)
             totalCost == FAdd(p.totalCost, FMul(qty, price))
         IN  [totalQty |-> totalQty, totalCost |-> totalCost,
              avgPrice |-> FDiv(totalCost, totalQty),
              breakEven |-> FDiv(totalCost, totalQty)]
    ELSE IF side = "SELL"
    THEN LET totalQty  == FSub(p.totalQty, qty)
             totalCost == FSub(p.totalCost, FMul(p.avgPrice, qty))
         IN  IF totalQty <= 0 THEN NoPosition
             ELSE [totalQty |-> totalQty, totalCost |-> totalCost,
                   avgPrice |-> FDiv(totalCost, totalQty),
                   breakEven |-> FDiv(totalCost, totalQty)]
    ELSE p

\* The positions after the handler has tracked the accepted order o: the
\* quantity is the one computed before the adjustment, the price the one
\* of the body.
Track(ps, o) ==
    [s \in DOMAIN ps \cup {o.symbol} |->
        IF s # o.symbol THEN ps[s]
        ELSE TrackStep(IF s \in DOMAIN ps THEN ps[s] ELSE NoPosition,
                       o.side, o.qty, ParseFloat(o.price))]

\* The exchange accepts the order: the tracking handler updates the
\* position of the symbol; res.json.
PostResponse ==
    /\ order.pc = "post"
    /\ order' = Answer(order, 200)
    /\ positions' = IF order.handler = "track" THEN Track(positions, order)
                    ELSE positions
    /\ UNCHANGED <<basisVars, cacheVars, callVars, world, reqs, nFails>>

\* The exchange rejects the order or the POST fails: the catch answers 500.
PostError ==
    /\ order.pc = "post"
    /\ nFails < MaxFails
    /\ nFails' = nFails + 1
    /\ order' = Answer(order, 500)
    /\ UNCHANGED <<basisVars, cacheVars, callVars, world, positions, reqs>>

\* The exchangeInfo entry ages by its TTL.
InfoExpires == Advance({EXCHANGE_INFO_TTL})

\* The filters tried, as numerals: stepSize 0, 0.1, 0.5, 1; minQty 0.1,
\* 0.75, 1; tickSize 0, 0.1, 0.5.
FilterSets ==
    [stepSize : {0, 10, 50, Cent}, minQty : {10, 75, Cent},
     tickSize : {0, 10, 50}]

\* The bodies tried, as numerals: quantity missing, 0.2, 1.7; usdAmount
\* missing, 3; price missing, 0.7, 1.5.
OrderSymbols == {"BTCUSDT", "LTCUSDT"}
Quantities == {0, 20, 170}
UsdAmounts == {0, 3 * Cent}
OrderPrices == {0, 70, 150}

InitOrder ==
    /\ FEE_RATE = 0
    /\ BasisStart
    /\ ServerStart
    /\ order \in {[NoOrder EXCEPT !.filters = f] : f \in FilterSets}
    /\ world = WorldOf([s \in Symbols |-> <<>>])

NextOrder ==
    \/ InfoExpires
    \/ \E symbol \in OrderSymbols : \E quantity \in Quantities :
       \E type \in {"MARKET", "LIMIT"} : \E price \in OrderPrices :
           OrderArrives(symbol, quantity, type, price)
    \/ InfoResponse
    \/ InfoError
    \/ \E symbol \in OrderSymbols : \E side \in {"BUY", "SELL"} :
       \E quantity \in Quantities : \E usdAmount \in UsdAmounts :
       \E price \in OrderPrices :
           LotOrderArrives(symbol, side, quantity, usdAmount, price)
    \/ FiltersResponse
    \/ FiltersError
    \/ BalancesResponse
    \/ BalancesError
    \/ PostResponse
    \/ PostError

SpecOrder == InitOrder /\ [][NextOrder]_vars

\* ------------------------------------------------------------------------
\* Claims about POST /order
\* ------------------------------------------------------------------------
\* The digits of a printed number, read as an integer of 10^-d.
DigitsOf(f) == f.t.whole * Pow10(f.d) + f.t.frac

\* A printed number against a numeral c of hundredths, both read as
\* decimals: at least c, at most c, a whole multiple of c.
AtLeast(f, c) == ~f.nan /\ ~f.t.neg /\ DigitsOf(f) * Cent >= c * Pow10(f.d)
AtMost(f, c) == ~f.nan /\ (f.t.neg \/ DigitsOf(f) * Cent <= c * Pow10(f.d))
MultipleOf(f, c) == ~f.nan /\ c # 0 /\ (DigitsOf(f) * Cent) % (c * Pow10(f.d)) = 0

\* The handler with adjustQtyForLotSize and roundPrice has adjusted the
\* order o and sent it.
LotSent(o) == o.handler = "lot" /\ o.sent

\* C16: for every qty >= 0, stepSize > 0 and minQty > 0 the quantity
\* adjustQtyForLotSize returns is at least minQty and a multiple of
\* stepSize, also when the step-floored quantity is below minQty.
C16_AtLeastMinAndMultiple ==
    (LotSent(order) /\ order.filters.stepSize > 0)
        => /\ AtLeast(order.finalQty, order.filters.minQty)
           /\ MultipleOf(order.finalQty, order.filters.stepSize)

\* The handler has adjusted the quantity of the order o to the step size.
StepAdjusted(o) ==
    \/ LotSent(o) /\ o.filters.stepSize > 0
    \/ /\ o.handler = "server"
       /\ o.sent \/ o.error \in {"Quantity < minQty", "LIMIT requires price"}

\* The quantity of the order o floored to a multiple of the step size.
StepFloored(o) ==
    IF o.handler = "server" THEN o.qty
    ELSE FMul(Floor(FDiv(o.qty, ParseFloat(o.filters.stepSize))),
              ParseFloat(o.filters.stepSize))

\* The quantity the handler puts in the order is minQty.
SubmitsMinQty(o) ==
    IF o.handler = "server" THEN o.qty = ParseFloat(o.filters.minQty)
    ELSE /\ AtLeast(o.finalQty, o.filters.minQty)
         /\ AtMost(o.finalQty, o.filters.minQty)

\* C17: an order whose step-floored quantity is below minQty is never
\* rejected for it: the quantity submitted is minQty and the order is sent
\* to the exchange.
C17_BelowMinimumStillSent ==
    (StepAdjusted(order) /\ StepFloored(order) < ParseFloat(order.filters.minQty))
        => /\ order.error # "Quantity < minQty"
           /\ order.sent
           /\ SubmitsMinQty(order)

\* C18: for every price >= 0 and tickSize > 0 the price roundPrice returns
\* is at most the price and is the largest whole multiple of tickSize not
\* above the price.
C18_LargestMultipleBelowPrice ==
    (LotSent(order) /\ order.filters.tickSize > 0)
        => /\ AtMost(order.finalPrice, order.price)
           /\ MultipleOf(order.finalPrice, order.filters.tickSize)
           /\ ~AtMost(order.finalPrice, order.price - order.filters.tickSize)

\* The filters the handler of the order o divides by hold a zero.
ZeroFilter(o) ==
    \/ o.filters.stepSize = 0
    \/ o.handler = "lot" /\ o.filters.tickSize = 0

\* C19: with stepSize = 0 or tickSize = 0 in the trading rules the
\* adjustment fails with an InvalidFilterError, the request is aborted and
\* no order is sent to the exchange.
C19_ZeroFilterAborts ==
    ZeroFilter(order) => ~order.sent

\* ------------------------------------------------------------------------
\* Further claims about the cost-basis pass
\* ------------------------------------------------------------------------
\* C21: for the trades buy 1 at 100, buy 1 at 200, sell 1 at 300 with a
\* fee rate of 0 the pass of /positions ends with openQty = 1 and
\* breakEven = 150, and at a current price of 150 the Position reports
\* these with unrealizedPL = (150 - breakEven) * openQty = 0.
C21_Scenario ==
    (trades = Scenario /\ FEE_RATE = 0) =>
        /\ pos.openQty = Num(1)
        /\ FDiv(pos.openCost, pos.openQty) = Num(150)
        /\ FMul(FSub(Num(150), FDiv(pos.openCost, pos.openQty)),
                pos.openQty) = 0
        /\ PositionOf("BTCUSDT", trades, Num(150)) =
               << [symbol |-> "BTCUSDT",
                   positionAmt |-> ToFixed(Num(1), 8),
                   breakEven |-> ToFixed(Num(150), 8),
                   entryPrice |-> ToFixed(Num(150), 8),
                   currentPrice |-> ToFixed(Num(150), 8),
                   marketValue |-> ToFixed(Num(150), 2),
                   unrealizedPL |-> ToFixed(0, 2)] >>

\* C21 witness: the three trades were processed at a fee rate of 0 and
\* left one unit open.
C21_Witness ==
    /\ trades = Scenario
    /\ FEE_RATE = 0
    /\ pos.openQty = Num(1)
    /\ pos.openCost = Num(150)

\* The last trade was a sell of less than the open quantity.
PartialSell ==
    /\ trades # <<>>
    /\ ~LastTrade.isBuyer
    /\ prev.pos.openQty > 0
    /\ LastTrade.qty < prev.pos.openQty

\* openCost / openQty of a state of the pass.
BreakEvenOf(s) == FDiv(s.openCost, s.openQty)

\* C22: a sell of less than the open quantity (openQty > 0) lowers
\* openQty by the quantity sold and openCost by the quantity sold times
\* openCost / openQty as it was before the sell, and leaves the break-even
\* openCost / openQty as it was.
C22_AverageCostOnSell ==
    PartialSell =>
        LET avg == BreakEvenOf(prev.pos)
        IN  /\ pos.openQty = FSub(prev.pos.openQty, LastTrade.qty)
            /\ pos.openCost =
                   FSub(prev.pos.openCost, FMul(LastTrade.qty, avg))
            /\ BreakEvenOf(pos) = avg

\* The prices put in the place of the prices of the sells.
OtherPrices == {Num(10), Num(300)}

\* The trades ts with the price of every sell i replaced by g[i].
Repriced(ts, g) ==
    [i \in 1..Len(ts) |->
        IF ts[i].isBuyer THEN ts[i] ELSE [ts[i] EXCEPT !.price = g[i]]]

\* C23: the prices of the sells, and so the fees on them, have no
\* influence: after every trade, a history that differs from the one
\* processed in the prices of its sells only gives the same openQty and
\* openCost, and so the same break-even, in /positions and in /breakeven.
C23_SellPricesIgnored ==
    \A g \in [1..Len(trades) -> OtherPrices] :
        /\ PositionsPass(Repriced(trades, g), FEE_RATE) = pos
        /\ BreakEvenPass(Repriced(trades, g), FEE_RATE) = be

\* C23 witness: with a fee rate above 0, a sell at 33 of part of the open
\* quantity was processed, and the same history with the sell at 10 ends
\* in the same state.
C23_Witness ==
    /\ PartialSell
    /\ FEE_RATE > 0
    /\ LastTrade.price = Num(33)
    /\ pos # prev.pos
    /\ pos.openCost > 0
    /\ PositionsPass([trades EXCEPT ![Len(trades)].price = Num(10)],
                     FEE_RATE) = pos

\* ------------------------------------------------------------------------
\* Termination and outbound calls of /positions
\* ------------------------------------------------------------------------
\* The /positions request on connection r is being served.
Serving(r) ==
    reqs[r].kind = "positions" /\ reqs[r].pc \notin {"idle", "done"}

\* The getter calls of the request st stay within 3 per eligible asset,
\* and a price was asked for only for a candidate whose trade history came
\* back non-empty.
WithinBudget(st) ==
    /\ Len(st.asked) <= 3 * Len(st.assets)
    /\ Len(st.priced) <= 3 * Len(st.assets)
    /\ \A i \in 1..Len(st.priced) :
          /\ \E j \in 1..Len(st.asked) : st.asked[j] = st.priced[i]
          /\ world.tradesOf[st.priced[i]] # <<>>
          /\ <<"trades", st.priced[i]>> \notin st.failed

\* C26: every /positions request ends with one response, provided each
\* outbound call returns or fails in the end; with n eligible assets in
\* the snapshot it waits for the account at most once, calls for at most
\* 3 n trade histories and at most 3 n prices, and asks for the price of a
\* candidate only after that candidate's non-empty trade history came back.
C26_TerminatesWithinBudget ==
    /\ \A r \in Reqs : Serving(r) ~> (reqs[r].pc = "done")
    /\ [](\A r \in Reqs : reqs[r].kind = "positions" => WithinBudget(reqs[r]))
    /\ [][\A r \in Reqs :
             /\ (reqs'[r].pc = "acct" /\ reqs[r].pc # "acct")
                    => reqs[r].pc \in {"idle", "done"}
             /\ (reqs[r].pc = "done" /\ reqs'[r].n = reqs[r].n)
                    => reqs'[r] = reqs[r]]_vars

\* C26 witness: a /positions request over two eligible assets has answered
\* 200 after 6 trade-history calls and a price call.
C26_Witness ==
    \E r \in Reqs :
        /\ reqs[r].kind = "positions"
        /\ reqs[r].pc = "done"
        /\ reqs[r].status = 200
        /\ Len(reqs[r].assets) = 2
        /\ Len(reqs[r].asked) = 6
        /\ Len(reqs[r].priced) >= 1

\* ------------------------------------------------------------------------
\* The quantity POST /order submits after adjustToStepSize
\* ------------------------------------------------------------------------
\* The handler with adjustToStepSize has sent the order o, for a requested
\* quantity and a step size above 0.
StepSent(o) ==
    /\ o.handler = "server"
    /\ o.sent
    /\ o.quantity > 0
    /\ o.filters.stepSize > 0

\* The Number x is the one a whole multiple of the numeral c reads as.
NumberOfMultiple(x, c, most) == \E k \in 0..most : x = ParseFloat(k * c)

\* C27: in the handler that uses adjustToStepSize the quantity submitted is
\* never greater than the quantity requested and is a whole multiple of
\* stepSize, for every requested quantity > 0 and every stepSize > 0.
C27_FlooredToStep ==
    StepSent(order)
        => /\ order.qty <= ParseFloat(order.quantity)
           /\ NumberOfMultiple(order.qty, order.filters.stepSize,
                               order.quantity)

\* ------------------------------------------------------------------------
\* POST /order with position tracking
\* ------------------------------------------------------------------------
\* The bodies tried, as numerals: quantity missing, 1, 2; usdAmount missing,
\* 62; price 10, 31.
TrackQuantities == {0, Cent, 2 * Cent}
TrackUsdAmounts == {0, 62 * Cent}
TrackPrices == {10 * Cent, 31 * Cent}

InitTrack ==
    /\ FEE_RATE = 0
    /\ BasisStart
    /\ ServerStart
    /\ order = [NoOrder EXCEPT !.filters = NoFilters]
    /\ world = WorldOf([s \in Symbols |-> <<>>])

NextTrack ==
    \/ \E symbol \in OrderSymbols : \E side \in {"BUY", "SELL"} :
       \E quantity \in TrackQuantities : \E usdAmount \in TrackUsdAmounts :
       \E price \in TrackPrices :
           TrackedOrderArrives(symbol, side, quantity, usdAmount, price)
    \/ FiltersResponse
    \/ FiltersError
    \/ BalancesResponse
    \/ BalancesError
    \/ PostResponse
    \/ PostError

SpecTrack == InitTrack /\ [][NextTrack]_vars

\* What the claim asks of a tracked position.
WellTracked(p) ==
    /\ p.totalQty >= 0
    /\ p.totalCost >= 0
    /\ p.avgPrice = p.breakEven
    /\ p.totalQty = 0 => (p.totalCost = 0 /\ p.avgPrice = 0 /\ p.breakEven = 0)

\* C28: after any sequence of BUY and SELL orders with qty > 0 and
\* price > 0 every tracked symbol has totalQty >= 0, totalCost >= 0 and
\* avgPrice = breakEven, and totalQty = 0 implies that the other three are
\* 0; an order whose exchange call fails, and any step other than the
\* acceptance of an order by the exchange, leaves the positions unchanged.
C28_TrackedPositions ==
    /\ [](\A s \in DOMAIN positions : WellTracked(positions[s]))
    /\ [][positions' # positions
             => (order.pc = "post" /\ order'.pc = "done"
                    /\ order'.status = 200)]_vars

\* A SELL of part of a position has been tracked, after an order whose
\* exchange call failed.
C28_Witness ==
    /\ order.handler = "track"
    /\ order.pc = "done"
    /\ order.status = 200
    /\ order.side = "SELL"
    /\ nFails = MaxFails
    /\ order.symbol \in DOMAIN positions
    /\ positions[order.symbol].totalQty > 0
    /\ positions[order.symbol].totalCost > 0
====
